---------------------------- MODULE Spec2Model ----------------------------
(***************************************************************************)
(* Model of the staged experiment pipeline of snncompare: the derivation   *)
(* of a file name (canonical key) from a run configuration, the expected   *)
(* graph names of a run, and the record of completed stages.               *)
(*                                                                         *)
(* Python values are records of one shape, so that any two of them can be  *)
(* compared: t is the Python type, i the number of an int or bool, s the   *)
(* text of a str or float, items the entries of a dict (k, v) or the       *)
(* elements of a list (v; k is empty).  A dict keeps its insertion order,  *)
(* as the dicts of the Python versions that run this code do.              *)
(***************************************************************************)
EXTENDS Integers, Sequences, FiniteSets, TLC

VARIABLES
    run_config,   \* the caller's run configuration (a dict)
    ret,          \* outcome of the last call of run_config_to_filename
    flat,         \* outcome of the last call of flatten
    graphs,       \* graph name -> the graph artifact of the run
    disk,         \* the image files that exist
    stage,        \* the stage the run is at
    status,       \* Pending, Running, Verifying, Completed or Failed
    sim_duration, \* what get_sim_duration returns for this run
    out,          \* outcome of the last call about graph names or stages
    store,        \* the result files: path -> the bundle stored there
    runs          \* the runs that go on side by side, each with its state

vars ==
    <<run_config, ret, flat, graphs, disk, stage, status, sim_duration, out,
      store, runs>>

---------------------------------------------------------------------------
(* Python values *)

PyInt(n) == [t |-> "int", i |-> n, s |-> "", items |-> <<>>]
PyBool(b) == [t |-> "bool", i |-> IF b THEN 1 ELSE 0, s |-> "", items |-> <<>>]
PyStr(x) == [t |-> "str", i |-> 0, s |-> x, items |-> <<>>]
PyFloat(x) == [t |-> "float", i |-> 0, s |-> x, items |-> <<>>]
PyNone == [t |-> "NoneType", i |-> 0, s |-> "", items |-> <<>>]
PyList(elems) ==
    [t |-> "list", i |-> 0, s |-> "",
     items |-> [j \in 1..Len(elems) |-> [k |-> "", v |-> elems[j]]]]
PyDict(pairs) ==
    [t |-> "dict", i |-> 0, s |-> "",
     items |-> [j \in 1..Len(pairs) |-> [k |-> pairs[j][1], v |-> pairs[j][2]]]]

\* isinstance(v, collections.MutableMapping)
is_mapping(v) == v.t = "dict"

\* k in d
dict_has(d, key) == \E j \in 1..Len(d.items) : d.items[j].k = key

\* d[k], for a key of d
dict_get(d, key) ==
    d.items[CHOOSE j \in 1..Len(d.items) : d.items[j].k = key].v

\* d after "del d[key]": the other entries keep their order
dict_del(d, key) ==
    [d EXCEPT !.items = SelectSeq(d.items, LAMBDA e : e.k # key)]

\* d after "d[key] = value": a new key goes last, a known key keeps its place
dict_set(d, key, value) ==
    IF dict_has(d, key)
    THEN [d EXCEPT !.items =
            [j \in 1..Len(d.items) |->
                IF d.items[j].k = key THEN [k |-> key, v |-> value]
                ELSE d.items[j]]]
    ELSE [d EXCEPT !.items = Append(d.items, [k |-> key, v |-> value])]

RECURSIVE dict_from_items(_)
\* dict(items) of a list of (key, value) pairs
dict_from_items(items) ==
    IF items = <<>> THEN PyDict(<<>>)
    ELSE LET n == Len(items)
         IN dict_set(dict_from_items(SubSeq(items, 1, n - 1)),
                     items[n].k, items[n].v)

RECURSIVE py_eq(_, _)
\* left == right of Python: dicts are equal when they hold the same keys with
\* equal values, in any order; lists are equal element by element.
py_eq(left, right) ==
    IF left.t = "dict" /\ right.t = "dict"
    THEN /\ Len(left.items) = Len(right.items)
         /\ \A j \in 1..Len(left.items) :
                /\ dict_has(right, left.items[j].k)
                /\ py_eq(left.items[j].v, dict_get(right, left.items[j].k))
    ELSE IF left.t = "list" /\ right.t = "list"
    THEN /\ Len(left.items) = Len(right.items)
         /\ \A j \in 1..Len(left.items) :
                py_eq(left.items[j].v, right.items[j].v)
    ELSE IF left.t \in {"int", "bool"} /\ right.t \in {"int", "bool"}
    THEN left.i = right.i
    ELSE left = right

---------------------------------------------------------------------------
(* str() of a value, as Python prints it *)

Digit(d) == SubSeq("0123456789", d + 1, d + 1)

RECURSIVE NatRepr(_)
NatRepr(n) == IF n < 10 THEN Digit(n) ELSE NatRepr(n \div 10) \o Digit(n % 10)

IntRepr(n) == IF n < 0 THEN "-" \o NatRepr(0 - n) ELSE NatRepr(n)

RECURSIVE repr(_), repr_entries(_, _, _)
\* repr(v): a str in single quotes (the strings of the model hold no quote
\* and no backslash), a dict as {k: v, ...}, a list as [v, ...].
repr(v) ==
    CASE v.t = "int" -> IntRepr(v.i)
      [] v.t = "bool" -> IF v.i = 1 THEN "True" ELSE "False"
      [] v.t = "str" -> "'" \o v.s \o "'"
      [] v.t = "float" -> v.s
      [] v.t = "NoneType" -> "None"
      [] v.t = "list" -> "[" \o repr_entries(v.items, 1, FALSE) \o "]"
      [] v.t = "dict" -> "{" \o repr_entries(v.items, 1, TRUE) \o "}"

repr_entries(items, j, keyed) ==
    IF j > Len(items) THEN ""
    ELSE (IF j > 1 THEN ", " ELSE "")
         \o (IF keyed THEN "'" \o items[j].k \o "': " ELSE "")
         \o repr(items[j].v)
         \o repr_entries(items, j + 1, keyed)

\* str(d)
str(v) == repr(v)

RECURSIVE replace_after(_, _, _, _)
\* text from its lo-th character on, with new in the places hits (where
\* text holds old).
replace_after(text, new, hits, lo) ==
    IF \A h \in hits : h < lo THEN SubSeq(text, lo, Len(text))
    ELSE LET h == CHOOSE x \in hits : x >= lo /\ \A y \in hits : y >= lo => x <= y
         IN SubSeq(text, lo, h - 1) \o new \o replace_after(text, new, hits, h + 1)

\* text.replace(old, new), for a one-character old
replace(text, old, new) ==
    replace_after(text, new,
                  { j \in 1..Len(text) : SubSeq(text, j, j) = old }, 1)

---------------------------------------------------------------------------
(* export_results/helper.py: flatten and run_config_to_filename *)

RECURSIVE flatten(_, _, _), flatten_loop(_, _, _, _)
\* The list "items" of flatten, from the j-th entry of d on.
flatten_loop(d, parent_key, sep, j) ==
    IF j > Len(d.items) THEN <<>>
    ELSE LET k == d.items[j].k
             v == d.items[j].v
             new_key == IF parent_key # "" THEN parent_key \o sep \o k ELSE k
         IN (IF is_mapping(v)
             THEN flatten(v, new_key, sep).items
             ELSE <<[k |-> new_key, v |-> v]>>)
            \o flatten_loop(d, parent_key, sep, j + 1)

flatten(d, parent_key, sep) ==
    dict_from_items(flatten_loop(d, parent_key, sep, 1))

\* The longest file name run_config_to_filename returns.
MaxFilenameLen == 256

\* The keys run_config_to_filename pops, in the order it pops them.
popped_keys_without_show_snns ==
    <<"unique_id", "overwrite_sim_results", "overwrite_visualisation",
      "export_snns">>

popped_keys ==
    <<"unique_id", "overwrite_sim_results", "overwrite_visualisation",
      "show_snns", "export_snns">>

\* Objects live in a heap (a sequence of dicts) and are named by their index:
\* copy.deepcopy makes a new object, dict.pop changes the object it is given.
deepcopy_alias(heap, ref) == [heap |-> heap, ref |-> ref]

deepcopy(heap, ref) == [heap |-> Append(heap, heap[ref]), ref |-> Len(heap) + 1]

\* heap[ref].pop(key): KeyError when the key is missing
dict_pop(heap, ref, key) ==
    IF dict_has(heap[ref], key)
    THEN [heap |-> [heap EXCEPT ![ref] = dict_del(@, key)], exc |-> ""]
    ELSE [heap |-> heap, exc |-> "KeyError"]

RECURSIVE pop_keys(_, _, _, _)
\* The pops of keys[j], keys[j+1], ... one after the other, up to the first
\* that raises.
pop_keys(heap, ref, keys, j) ==
    IF j > Len(keys) THEN [heap |-> heap, exc |-> ""]
    ELSE LET p == dict_pop(heap, ref, keys[j])
         IN IF p.exc # "" THEN p ELSE pop_keys(p.heap, ref, keys, j + 1)

\* len(filename) > 256
filename_is_too_long_never(filename) == FALSE

filename_is_too_long(filename) == Len(filename) > MaxFilenameLen

\* run_config_to_filename(run_config), run_config naming an object of heap:
\* the heap it leaves and what it returns or raises.
run_config_to_filename(heap, run_config_ref) ==
    LET c == deepcopy(heap, run_config_ref)
        stripped_run_config == c.ref
        p == pop_keys(c.heap, stripped_run_config, popped_keys, 1)
        filename ==
            replace(str(flatten(p.heap[stripped_run_config], "", "_")), " ", "")
    IN IF p.exc # ""
       THEN [heap |-> p.heap, kind |-> "raise", exc |-> p.exc, value |-> ""]
       ELSE IF filename_is_too_long(filename)
       THEN [heap |-> p.heap, kind |-> "raise", exc |-> "Exception",
             value |-> "Filename=" \o filename \o " is too long:"
                       \o IntRepr(Len(filename))]
       ELSE [heap |-> p.heap, kind |-> "return", exc |-> "", value |-> filename]

\* The file name of a run configuration given by value.
filename_of(config) == run_config_to_filename(<<config>>, 1)

---------------------------------------------------------------------------
(* export_results/verify_stage_1_graphs.py and helper.py: the expected graph
   names, the expected stages and the record of completed stages *)

\* Whether the run configuration names an adaptation, a radiation.
has_adaptation(config) == dict_get(config, "adaptation") # PyNone

has_radiation(config) == dict_get(config, "radiation") # PyNone

get_expected_stage_1_graph_names_unguarded(config) ==
    <<"input_graph", "snn_algo_graph">>
    \o (IF has_adaptation(config) THEN <<"adapted_snn_graph">> ELSE <<>>)
    \o (IF has_radiation(config)
        THEN <<"rad_snn_algo_graph", "rad_adapted_snn_graph">>
        ELSE <<>>)

get_expected_stage_1_graph_names_overwriting(config) ==
    IF has_radiation(config)
    THEN <<"rad_snn_algo_graph">>
         \o (IF has_adaptation(config) THEN <<"rad_adapted_snn_graph">> ELSE <<>>)
    ELSE <<"input_graph", "snn_algo_graph">>
         \o (IF has_adaptation(config) THEN <<"adapted_snn_graph">> ELSE <<>>)

\* The list of graph names expected at the end of stage 1.
get_expected_stage_1_graph_names(config) ==
    <<"input_graph", "snn_algo_graph">>
    \o (IF has_adaptation(config) THEN <<"adapted_snn_graph">> ELSE <<>>)
    \o (IF has_radiation(config)
        THEN <<"rad_snn_algo_graph">>
             \o (IF has_adaptation(config)
                 THEN <<"rad_adapted_snn_graph">> ELSE <<>>)
        ELSE <<>>)

expected_graphs_are_in_dict_for_any_stage(config, the_graphs, stage_index) ==
    LET expected_graphs == get_expected_stage_1_graph_names(config)
    IN [kind |-> "return", exc |-> "",
        value |-> \A j \in 1..Len(expected_graphs) :
                     dict_has(the_graphs, expected_graphs[j])]

\* expected_graphs_are_in_dict(run_config, graphs, stage): what it returns
\* or raises.
expected_graphs_are_in_dict(config, the_graphs, stage_index) ==
    IF stage_index = 1
    THEN LET expected_graphs == get_expected_stage_1_graph_names(config)
         IN [kind |-> "return", exc |-> "",
             value |-> \A j \in 1..Len(expected_graphs) :
                          dict_has(the_graphs, expected_graphs[j])]
    ELSE [kind |-> "raise", exc |-> "Exception", value |-> FALSE]

RECURSIVE graphs_entries(_, _)
\* The entries of str(graphs) from the j-th on: the repr of the name, and
\* the repr of the graph object, the address in it left out.
graphs_entries(the_graphs, j) ==
    IF j > Len(the_graphs.items) THEN ""
    ELSE (IF j > 1 THEN ", " ELSE "")
         \o "'" \o the_graphs.items[j].k \o "': "
         \o "<networkx.classes.digraph.DiGraph object>"
         \o graphs_entries(the_graphs, j + 1)

\* str(graphs) of the graphs dict, in an f-string
graphs_str(the_graphs) == "{" \o graphs_entries(the_graphs, 1) \o "}"

\* assert_graphs_are_in_dict(run_config, graphs, stage): whether it raises,
\* and the message of what it raises.
assert_graphs_are_in_dict(config, the_graphs, stage_index) ==
    LET found == expected_graphs_are_in_dict(config, the_graphs, stage_index)
    IN IF found.kind = "raise"
       THEN [kind |-> "raise", exc |-> found.exc,
             message |-> "Stage " \o IntRepr(stage_index) \o " not yet implemented."]
       ELSE IF ~found.value
       THEN [kind |-> "raise", exc |-> "Exception",
             message |-> "Error, graph is missing:" \o graphs_str(the_graphs)
                         \o ",stage:" \o IntRepr(stage_index)]
       ELSE [kind |-> "return", exc |-> "", message |-> ""]

get_expected_stages_none(stage_index) == <<>>

get_expected_stages_keeping_3(stage_index) ==
    [j \in 1..(IF stage_index < 0 THEN 0 ELSE stage_index) |-> j]

\* get_expected_stages(stage_index): 1..stage_index without 3, as the list
\* Python makes of that set of small ints (in rising order).
get_expected_stages(stage_index) ==
    SelectSeq([j \in 1..(IF stage_index < 0 THEN 0 ELSE stage_index) |-> j],
              LAMBDA e : e # 3)

\* stage_index in graph.graph["completed_stages"], for a list
list_has_int(list, n) == \E j \in 1..Len(list.items) : list.items[j].v = PyInt(n)

add_stage_completion_to_graph_resetting(graph, stage_index) ==
    IF stage_index = 1
    THEN IF dict_has(graph, "completed_stages")
         THEN [graph |-> dict_set(graph, "completed_stages", PyList(<<>>)),
               exc |-> "ValueError"]
         ELSE [graph |-> dict_set(graph, "completed_stages", PyList(<<PyInt(1)>>)),
               exc |-> ""]
    ELSE IF ~dict_has(graph, "completed_stages")
    THEN [graph |-> graph, exc |-> "KeyError"]
    ELSE IF dict_get(graph, "completed_stages").t # "list"
    THEN [graph |-> graph, exc |-> "TypeError"]
    ELSE IF list_has_int(dict_get(graph, "completed_stages"), stage_index)
    THEN [graph |-> graph, exc |-> "ValueError"]
    ELSE [graph |->
            dict_set(graph, "completed_stages",
                [dict_get(graph, "completed_stages") EXCEPT !.items =
                    Append(@, [k |-> "", v |-> PyInt(stage_index)])]),
          exc |-> ""]

add_stage_completion_to_graph_overwriting(graph, stage_index) ==
    IF stage_index = 1 /\ dict_has(graph, "completed_stages")
    THEN [graph |-> graph, exc |-> "ValueError"]
    ELSE IF stage_index # 1 /\ ~dict_has(graph, "completed_stages")
    THEN [graph |-> graph, exc |-> "KeyError"]
    ELSE [graph |-> dict_set(graph, "completed_stages", PyList(<<PyInt(stage_index)>>)),
          exc |-> ""]

\* add_stage_completion_to_graph(snn, stage_index) on the attributes
\* graph.graph of the graph: the attributes it leaves and what it raises.
add_stage_completion_to_graph(graph, stage_index) ==
    IF stage_index = 1 /\ dict_has(graph, "completed_stages")
    THEN [graph |-> graph, exc |-> "ValueError"]
    ELSE IF stage_index # 1 /\ ~dict_has(graph, "completed_stages")
    THEN [graph |-> graph, exc |-> "KeyError"]
    ELSE IF stage_index # 1 /\ dict_get(graph, "completed_stages").t # "list"
    THEN [graph |-> graph, exc |-> "TypeError"]
    ELSE LET initialised ==
                 IF stage_index = 1
                 THEN dict_set(graph, "completed_stages", PyList(<<>>))
                 ELSE graph
             completed_stages == dict_get(initialised, "completed_stages")
         IN IF list_has_int(completed_stages, stage_index)
            THEN [graph |-> initialised, exc |-> "ValueError"]
            ELSE [graph |->
                    dict_set(initialised, "completed_stages",
                        [completed_stages EXCEPT !.items =
                            Append(@, [k |-> "", v |-> PyInt(stage_index)])]),
                  exc |-> ""]

RECURSIVE image_paths_of_from_1(_, _, _, _, _)
image_paths_of_from_1(graph_names, filename, duration, extension, j) ==
    IF j > Len(graph_names) THEN <<>>
    ELSE (IF graph_names[j] = "input_graph"
          THEN << "results/" \o graph_names[j] \o "_" \o filename \o extension >>
          ELSE [t \in 1..duration |->
                   "latex/Images/graphs/" \o graph_names[j] \o "_" \o filename
                   \o "_" \o IntRepr(t) \o extension])
         \o image_paths_of_from_1(graph_names, filename, duration, extension, j + 1)

RECURSIVE image_paths_of(_, _, _, _, _)
\* The paths get_expected_image_paths_stage_3 appends for one extension, from
\* the j-th graph name on.
image_paths_of(graph_names, filename, duration, extension, j) ==
    IF j > Len(graph_names) THEN <<>>
    ELSE (IF graph_names[j] = "input_graph"
          THEN << "results/" \o graph_names[j] \o "_" \o filename \o extension >>
          ELSE [t \in 1..duration |->
                   "latex/Images/graphs/" \o graph_names[j] \o "_" \o filename
                   \o "_" \o IntRepr(t - 1) \o extension])
         \o image_paths_of(graph_names, filename, duration, extension, j + 1)

RECURSIVE image_paths_for(_, _, _, _, _)
image_paths_for(graph_names, filename, duration, extensions, e) ==
    IF e > Len(extensions) THEN <<>>
    ELSE image_paths_of(graph_names, filename, duration, extensions[e], 1)
         \o image_paths_for(graph_names, filename, duration, extensions, e + 1)

\* get_expected_image_paths_stage_3(graph_names, input_graph, run_config,
\* extensions): the paths, or what it raises.  names is graph_names,
\* input_graph the attributes of the input graph, and duration what
\* get_sim_duration returns.
get_expected_image_paths_stage_3(names, input_graph, config, extensions, duration) ==
    LET filename == filename_of(config)
    IN IF filename.kind = "raise"
       THEN [kind |-> "raise", exc |-> filename.exc, paths |-> <<>>]
       ELSE IF ~dict_has(input_graph, "alg_props")
       THEN [kind |-> "raise", exc |-> "Exception", paths |-> <<>>]
       ELSE [kind |-> "return", exc |-> "",
             paths |-> image_paths_for(names, filename.value, duration,
                                       extensions, 1)]

---------------------------------------------------------------------------
(* The run configurations of the model *)

\* How far the long strings go below and above the length that fills a file
\* name of MaxFilenameLen characters.
MaxPadSlack == 1
\* The unique ids are 1..MaxUniqueId.
MaxUniqueId == 2

RECURSIVE Pad(_)
\* The string of n letters x.
Pad(n) ==
    IF n <= 0 THEN ""
    ELSE LET half == Pad(n \div 2)
         IN half \o half \o (IF n % 2 = 1 THEN "x" ELSE "")

\* The ordered dicts with distinct keys of names and values of values: every
\* choice of keys, in every order.
Dicts(names, values) ==
    UNION { { PyDict(p) : p \in { q \in [1..n -> names \X values] :
                                    \A a, b \in 1..n :
                                        a # b => q[a][1] # q[b][1] } }
            : n \in 0..Cardinality(names) }

PadLens ==
    { MaxFilenameLen - Len("{'a':''}") + d : d \in (0 - MaxPadSlack)..MaxPadSlack }

FieldNames == {"a", "a_b"}

FieldValues ==
    {PyInt(1), PyStr("x y"), PyStr("xy")}
    \cup { PyStr(Pad(n)) : n \in PadLens }
    \cup Dicts({"b"}, {PyInt(1)})

\* The fields of a run configuration besides the volatile ones.
Bodies == Dicts(FieldNames, FieldValues)

FlagNames ==
    {"overwrite_sim_results", "overwrite_visualisation", "show_snns",
     "export_snns"}

VolatileNames == {"unique_id"} \cup FlagNames

\* The volatile fields of a run configuration: a unique id and the flags.
Volatiles == [unique_id : 1..MaxUniqueId, flags : [FlagNames -> BOOLEAN]]

\* The run configuration of the fields of body followed by the volatile ones.
WithVolatile(body, vol) ==
    [body EXCEPT !.items = @ \o
        << [k |-> "unique_id", v |-> PyInt(vol.unique_id)],
           [k |-> "overwrite_sim_results",
            v |-> PyBool(vol.flags["overwrite_sim_results"])],
           [k |-> "overwrite_visualisation",
            v |-> PyBool(vol.flags["overwrite_visualisation"])],
           [k |-> "show_snns", v |-> PyBool(vol.flags["show_snns"])],
           [k |-> "export_snns", v |-> PyBool(vol.flags["export_snns"])] >>]

RunConfigs == { WithVolatile(b, vol) : b \in Bodies, vol \in Volatiles }

\* The fields of a run configuration that are not volatile.
NonVolatile(config) ==
    [config EXCEPT !.items = SelectSeq(@, LAMBDA e : e.k \notin VolatileNames)]

\* The volatile fields of a run configuration.
VolatileOf(config) ==
    [unique_id |-> dict_get(config, "unique_id").i,
     flags |-> [f \in FlagNames |-> dict_get(config, f).i = 1]]

\* The nested mappings flatten is applied to: three levels of dicts, a list
\* among the leaves, and a top-level key that reads like a nested path.
InnerMappings == Dicts({"x"}, {PyInt(5)})
MiddleMappings == Dicts({"a", "b"}, {PyInt(2)} \cup InnerMappings)
NestedMappings ==
    Dicts({"c", "c_a"},
          {PyInt(1), PyList(<<PyInt(1), PyInt(2), PyInt(3)>>)}
          \cup MiddleMappings)

---------------------------------------------------------------------------
(* Calls of run_config_to_filename and flatten *)

NoCall == [kind |-> "none", exc |-> "", value |-> ""]
NoFlat == [kind |-> "none", value |-> PyNone]
NoGraphs == PyDict(<<>>)
NoStore == [path \in {} |-> PyNone]
NoRuns == [run \in {} |-> PyNone]
NoOut ==
    [op |-> "none", stage |-> 0, kind |-> "none", value |-> FALSE,
     names |-> <<>>, stages |-> <<>>, exc |-> "", message |-> "",
     paths |-> <<>>]

InitKey ==
    /\ run_config \in RunConfigs
    /\ ret = NoCall
    /\ flat = NoFlat
    /\ graphs = NoGraphs
    /\ disk = {}
    /\ stage = 0
    /\ status = "none"
    /\ sim_duration = 0
    /\ out = NoOut
    /\ store = NoStore
    /\ runs = NoRuns

\* filename = run_config_to_filename(run_config)
RunConfigToFilename ==
    /\ ret.kind = "none"
    /\ LET r == run_config_to_filename(<<run_config>>, 1)
       IN /\ run_config' = r.heap[1]
          /\ ret' = [kind |-> r.kind, exc |-> r.exc, value |-> r.value]
    /\ UNCHANGED <<flat, graphs, disk, stage, status, sim_duration, out,
                 store, runs>>

NextKey == RunConfigToFilename

SpecKey == InitKey /\ [][NextKey]_vars

InitFlatten ==
    /\ run_config \in NestedMappings
    /\ ret = NoCall
    /\ flat = NoFlat
    /\ graphs = NoGraphs
    /\ disk = {}
    /\ stage = 0
    /\ status = "none"
    /\ sim_duration = 0
    /\ out = NoOut
    /\ store = NoStore
    /\ runs = NoRuns

\* flatten(d), d being run_config
Flatten ==
    /\ flat.kind = "none"
    /\ flat' = [kind |-> "return", value |-> flatten(run_config, "", "_")]
    /\ UNCHANGED <<run_config, ret, graphs, disk, stage, status, sim_duration, out,
                 store, runs>>

NextFlatten == Flatten

SpecFlatten == InitFlatten /\ [][NextFlatten]_vars

---------------------------------------------------------------------------
(* Config identity: claims C1 to C6 *)

\* What a call of run_config_to_filename on a configuration given by value
\* returns or raises.
OutcomeOf(config) ==
    LET r == filename_of(config)
    IN [kind |-> r.kind, exc |-> r.exc, value |-> r.value]

\* C1: once the file name of run_config is computed, every run configuration
\* that differs from run_config only in the values of unique_id,
\* overwrite_sim_results, overwrite_visualisation, show_snns and export_snns
\* gets the same file name (or fails the same way).
C1_VolatileValuesDoNotChangeKey ==
    ret.kind # "none" =>
        \A vol \in Volatiles :
            OutcomeOf(WithVolatile(NonVolatile(run_config), vol)) = ret

\* A file name was returned for a run configuration with fields of its own
\* whose show_snns is set and whose unique id is not the first.
C1_Witness ==
    /\ ret.kind = "return"
    /\ NonVolatile(run_config).items # <<>>
    /\ VolatileOf(run_config).flags["show_snns"]
    /\ VolatileOf(run_config).unique_id > 1

\* The whole serialisation of the non-volatile fields, spaces removed.
FullKey(config) == replace(str(flatten(NonVolatile(config), "", "_")), " ", "")

\* C2: a call of run_config_to_filename either returns the whole key, which
\* then has at most 256 characters, or raises the file-name-too-long error,
\* and then the key has more than 256 characters; it never returns a longer
\* or a cut string.
C2_KeyBoundedOrTooLongError ==
    ret.kind # "none" =>
        LET full == FullKey(run_config)
        IN \/ /\ ret.kind = "return"
              /\ ret.value = full
              /\ Len(ret.value) <= 256
           \/ /\ ret.kind = "raise"
              /\ ret.exc = "Exception"
              /\ ret.value = "Filename=" \o full \o " is too long:"
                             \o IntRepr(Len(full))
              /\ Len(full) > 256

\* The call failed on a key of 257 characters, one more than fits.
C2_Witness ==
    /\ ret.kind = "raise"
    /\ ret.exc = "Exception"
    /\ Len(FullKey(run_config)) = 257

\* C3 (as claimed): run configurations with the same fields and values at
\* every level, in whatever order, get the same file name.
C3_KeyStableUnderReordering ==
    ret.kind = "return" =>
        \A other \in RunConfigs :
            py_eq(other, run_config) => OutcomeOf(other) = ret

\* C4 (as claimed): two run configurations get the same file name if and only
\* if they are equal once the volatile fields are removed.
C4_SameKeyIffEqualWithoutVolatile ==
    ret.kind = "return" =>
        \A other \in RunConfigs :
            (OutcomeOf(other) = ret)
                <=> py_eq(NonVolatile(other), NonVolatile(run_config))

\* C5: a call of run_config_to_filename, whether it returns or raises, leaves
\* the caller's run configuration as it was: the volatile fields are still
\* there with their values, and so is every other field.
C5_CallerConfigUnchanged ==
    [][RunConfigToFilename => run_config' = run_config]_vars

\* A call that raised, on a run configuration that still holds its five
\* volatile fields.
C5_Witness ==
    /\ ret.kind = "raise"
    /\ \A name \in VolatileNames : dict_has(run_config, name)
    /\ VolatileOf(run_config).flags["export_snns"]

RECURSIVE leaves_of(_, _)
\* The leaves of a nested mapping: each with its path, the keys from the top
\* down to it, and its value.  A value that is not a mapping is a leaf.
leaves_of(d, path) ==
    UNION { IF is_mapping(d.items[j].v)
            THEN leaves_of(d.items[j].v, Append(path, d.items[j].k))
            ELSE { [path |-> Append(path, d.items[j].k), v |-> d.items[j].v] }
            : j \in 1..Len(d.items) }

RECURSIVE join(_, _)
\* sep.join(path)
join(sep, path) ==
    IF path = <<>> THEN ""
    ELSE IF Len(path) = 1 THEN path[1]
    ELSE path[1] \o sep \o join(sep, Tail(path))

\* C6 (as claimed): flatten returns a mapping with exactly one entry per leaf
\* of its input, under the leaf's path joined with "_", holding the leaf's
\* value; no entry is itself a mapping.
C6_FlattenOneEntryPerLeaf ==
    flat.kind = "return" =>
        LET leaves == leaves_of(run_config, <<>>)
        IN /\ Len(flat.value.items) = Cardinality(leaves)
           /\ \A leaf \in leaves :
                /\ dict_has(flat.value, join("_", leaf.path))
                /\ dict_get(flat.value, join("_", leaf.path)) = leaf.v
           /\ \A j \in 1..Len(flat.value.items) :
                ~is_mapping(flat.value.items[j].v)

---------------------------------------------------------------------------
(* The runs of the stage oracle *)

\* The redundancies of an adaptation are 1..MaxRedundancy.
MaxRedundancy == 1
\* The simulations last 1..MaxSimDuration timesteps.
MaxSimDuration == 2
\* The stage indices asked about are 0..MaxStageIndex.
MaxStageIndex == 5
\* The last stage of a run.
LastStage == 4

Adaptations ==
    {PyNone} \cup { PyDict(<< <<"redundancy", PyInt(r)>> >>) : r \in 1..MaxRedundancy }

Radiations == {PyNone, PyDict(<< <<"prob", PyFloat("0.1")>> >>)}

\* The run configurations of the oracle: an adaptation, a radiation (or
\* none) and the volatile fields.
OracleRunConfigs ==
    { WithVolatile(PyDict(<< <<"adaptation", a>>, <<"radiation", r>> >>),
                   [unique_id |-> 1, flags |-> [f \in FlagNames |-> f = "export_snns"]])
      : a \in Adaptations, r \in Radiations }

\* The five graph names, in the order stage 1 makes the graphs.
AllGraphNames ==
    <<"input_graph", "snn_algo_graph", "adapted_snn_graph",
      "rad_snn_algo_graph", "rad_adapted_snn_graph">>

Range(seq) == { seq[j] : j \in 1..Len(seq) }

\* The attributes of a graph that stage 1 has just made.
FreshGraph(name) ==
    IF name = "input_graph" THEN PyDict(<< <<"alg_props", PyDict(<<>>)>> >>)
    ELSE PyDict(<<>>)

\* The graphs dict that holds fresh graphs of the names chosen, marked with
\* stage 1.
GraphsOf(chosen) ==
    [t |-> "dict", i |-> 0, s |-> "",
     items |-> [j \in 1..Len(SelectSeq(AllGraphNames, LAMBDA n : n \in chosen)) |->
        LET name == SelectSeq(AllGraphNames, LAMBDA n : n \in chosen)[j]
        IN [k |-> name,
            v |-> add_stage_completion_to_graph(FreshGraph(name), 1).graph]]]

InitRoles ==
    /\ run_config \in OracleRunConfigs
    /\ graphs \in { GraphsOf(chosen) : chosen \in SUBSET Range(AllGraphNames) }
    /\ ret = NoCall
    /\ flat = NoFlat
    /\ disk = {}
    /\ stage = 0
    /\ status = "none"
    /\ sim_duration = 0
    /\ out = NoOut
    /\ store = NoStore
    /\ runs = NoRuns

\* get_expected_stage_1_graph_names(run_config)
GetExpectedStage1GraphNames ==
    /\ out.op = "none"
    /\ out' = [NoOut EXCEPT !.op = "get_expected_stage_1_graph_names",
                            !.kind = "return",
                            !.names = get_expected_stage_1_graph_names(run_config)]
    /\ UNCHANGED <<run_config, ret, flat, graphs, disk, stage, status, sim_duration,
                 store, runs>>

\* expected_graphs_are_in_dict(run_config, graphs, stage_index)
ExpectedGraphsAreInDict(stage_index) ==
    /\ out.op = "none"
    /\ LET r == expected_graphs_are_in_dict(run_config, graphs, stage_index)
       IN out' = [NoOut EXCEPT !.op = "expected_graphs_are_in_dict",
                               !.stage = stage_index,
                               !.kind = r.kind,
                               !.exc = r.exc,
                               !.value = r.value]
    /\ UNCHANGED <<run_config, ret, flat, graphs, disk, stage, status, sim_duration,
                 store, runs>>

\* get_expected_stages(stage_index)
GetExpectedStages(stage_index) ==
    /\ out.op = "none"
    /\ out' = [NoOut EXCEPT !.op = "get_expected_stages",
                            !.stage = stage_index,
                            !.kind = "return",
                            !.stages = get_expected_stages(stage_index)]
    /\ UNCHANGED <<run_config, ret, flat, graphs, disk, stage, status, sim_duration,
                 store, runs>>

\* assert_graphs_are_in_dict(run_config, graphs, stage_index)
AssertGraphsAreInDict(stage_index) ==
    /\ out.op = "none"
    /\ LET r == assert_graphs_are_in_dict(run_config, graphs, stage_index)
       IN out' = [NoOut EXCEPT !.op = "assert_graphs_are_in_dict",
                               !.stage = stage_index,
                               !.kind = r.kind,
                               !.exc = r.exc,
                               !.message = r.message]
    /\ UNCHANGED <<run_config, ret, flat, graphs, disk, stage, status, sim_duration,
                 store, runs>>

NextRoles ==
    \/ GetExpectedStage1GraphNames
    \/ \E stage_index \in 0..MaxStageIndex : ExpectedGraphsAreInDict(stage_index)
    \/ \E stage_index \in 0..MaxStageIndex : GetExpectedStages(stage_index)
    \/ \E stage_index \in 0..MaxStageIndex : AssertGraphsAreInDict(stage_index)

SpecRoles == InitRoles /\ [][NextRoles]_vars

---------------------------------------------------------------------------
(* Expected graph names: claims C7, C8 and C10 *)

\* The graph names of stage 1 as the claims state them.
RolesFor(adaptation, radiation) ==
    {"input_graph", "snn_algo_graph"}
    \cup (IF adaptation THEN {"adapted_snn_graph"} ELSE {})
    \cup (IF radiation THEN {"rad_snn_algo_graph"} ELSE {})
    \cup (IF adaptation /\ radiation THEN {"rad_adapted_snn_graph"} ELSE {})

\* C7: the graph names expected for stage 1 are input_graph and
\* snn_algo_graph, adapted_snn_graph exactly when an adaptation is
\* configured, rad_snn_algo_graph exactly when a radiation is, and
\* rad_adapted_snn_graph exactly when both are; each once, none else, and a
\* rad_ name only beside the name it is the radiation variant of.
C7_ExpectedRolesOfStage1 ==
    out.op = "get_expected_stage_1_graph_names" =>
        LET names == Range(out.names)
        IN /\ names = RolesFor(dict_get(run_config, "adaptation") # PyNone,
                               dict_get(run_config, "radiation") # PyNone)
           /\ Len(out.names) = Cardinality(names)
           /\ "rad_snn_algo_graph" \in names => "snn_algo_graph" \in names
           /\ "rad_adapted_snn_graph" \in names => "adapted_snn_graph" \in names

\* The names were asked for a run with a radiation and no adaptation.
C7_Witness ==
    /\ out.op = "get_expected_stage_1_graph_names"
    /\ dict_get(run_config, "radiation") # PyNone
    /\ dict_get(run_config, "adaptation") = PyNone
    /\ Len(out.names) = 3

\* C8: the names expected for a run contain the names expected for the same
\* run without its radiation, and for the same run without its adaptation;
\* and they are contained in the names expected once a radiation, or an
\* adaptation, is put in place of none.
C8_ExpectedRolesMonotonic ==
    out.op = "get_expected_stage_1_graph_names" =>
        LET NamesOf(config) == Range(get_expected_stage_1_graph_names(config))
        IN /\ NamesOf(dict_set(run_config, "radiation", PyNone)) \subseteq Range(out.names)
           /\ NamesOf(dict_set(run_config, "adaptation", PyNone)) \subseteq Range(out.names)
           /\ dict_get(run_config, "radiation") = PyNone =>
                \A r \in Radiations :
                    Range(out.names) \subseteq NamesOf(dict_set(run_config, "radiation", r))
           /\ dict_get(run_config, "adaptation") = PyNone =>
                \A a \in Adaptations :
                    Range(out.names) \subseteq NamesOf(dict_set(run_config, "adaptation", a))

\* The names were asked for a run with a radiation and an adaptation: all five.
C8_Witness ==
    /\ out.op = "get_expected_stage_1_graph_names"
    /\ dict_get(run_config, "radiation") # PyNone
    /\ dict_get(run_config, "adaptation") # PyNone
    /\ Range(out.names) = Range(AllGraphNames)

\* C10 (as claimed): for every stage 1 to 4, expected_graphs_are_in_dict
\* returns whether every graph name expected for stage 1 is a key of graphs.
C10_RolePresenceForEveryStage ==
    (out.op = "expected_graphs_are_in_dict" /\ out.stage \in 1..LastStage) =>
        /\ out.kind = "return"
        /\ out.value =
             (\A name \in Range(get_expected_stage_1_graph_names(run_config)) :
                 dict_has(graphs, name))

---------------------------------------------------------------------------
(* The stage runner and the completion oracle *)

\* The extensions of the images of stage 3.
ImageExtensions == <<".png">>

\* The values of the list graph.graph["completed_stages"] of a graph, none
\* for a graph without the list.
completed_stages_of(graph) ==
    IF dict_has(graph, "completed_stages")
    THEN { e.v.i : e \in Range(dict_get(graph, "completed_stages").items) }
    ELSE {}

\* The lists of graph names the runner asks the image files of: the names
\* expected of a run configuration, and all of them but the last.
NameLists ==
    UNION { LET names == get_expected_stage_1_graph_names(config)
            IN {names, SubSeq(names, 1, Len(names) - 1)}
            : config \in OracleRunConfigs }

\* What get_expected_image_paths_stage_3 gives for the run configurations,
\* the name lists and the durations of the runner, on an input graph with
\* alg_props (a graph stage 1 has just made) and on one without.
ExpectedImagePaths ==
    [config \in OracleRunConfigs, names \in NameLists,
     duration \in 1..MaxSimDuration, with_alg_props \in BOOLEAN |->
        get_expected_image_paths_stage_3(
            names,
            IF with_alg_props THEN FreshGraph("input_graph") ELSE PyDict(<<>>),
            config, ImageExtensions, duration)]

\* The image files expected of stage 3 for the graphs of names.
expected_image_paths(config, the_graphs, names, duration) ==
    ExpectedImagePaths[config, names, duration,
                       dict_has(dict_get(the_graphs, "input_graph"), "alg_props")]

\* has_outputted_stage(run_config, stage_index, to_run): whether stage
\* stage_index of the run has been outputted. The expected graphs are there
\* and, for stage 3, every expected image file is on disk, and for the other
\* stages every expected graph carries the expected stages in its
\* completed_stages, and for stage 4 its results.
has_outputted_stage(config, the_graphs, the_disk, stage_index, duration) ==
    LET names == get_expected_stage_1_graph_names(config)
    IN /\ expected_graphs_are_in_dict(config, the_graphs, 1).value
       /\ IF stage_index = 3
          THEN LET images == expected_image_paths(config, the_graphs, names, duration)
               IN /\ images.kind = "return"
                  /\ Range(images.paths) \subseteq the_disk
          ELSE \A name \in Range(names) :
                  LET graph == dict_get(the_graphs, name)
                  IN /\ Range(get_expected_stages(stage_index))
                            \subseteq completed_stages_of(graph)
                     /\ stage_index = 4 => dict_has(graph, "results")

assert_stage_is_completed_waiting(config, the_graphs, the_disk, stage_index, duration) ==
    IF ~has_outputted_stage(config, the_graphs, the_disk, stage_index, duration)
    THEN "wait"
    ELSE "return"

assert_stage_is_completed_passing(config, the_graphs, the_disk, stage_index, duration) ==
    "return"

\* assert_stage_is_completed(run_config, stage_index, to_run): whether it
\* raises.
assert_stage_is_completed(config, the_graphs, the_disk, stage_index, duration) ==
    IF ~has_outputted_stage(config, the_graphs, the_disk, stage_index, duration)
    THEN "raise"
    ELSE "return"

\* The graphs dict after add_stage_completion_to_graph on each of its graphs.
mark_graphs(the_graphs, stage_index) ==
    [the_graphs EXCEPT !.items =
        [j \in 1..Len(@) |->
            [k |-> @[j].k,
             v |-> add_stage_completion_to_graph(@[j].v, stage_index).graph]]]

\* Whether add_stage_completion_to_graph raises on a graph of the dict.
marking_raises(the_graphs, stage_index) ==
    \E e \in Range(the_graphs.items) :
        add_stage_completion_to_graph(e.v, stage_index).exc # ""

\* The graphs dict with results on each of its graphs.
with_results(the_graphs) ==
    [the_graphs EXCEPT !.items =
        [j \in 1..Len(@) |->
            [k |-> @[j].k, v |-> dict_set(@[j].v, "results", PyDict(<<>>))]]]

\* The stage after stage_index, and the status of the run on reaching it.
after_stage(stage_index) ==
    [stage |-> stage_index + 1,
     status |-> IF stage_index = LastStage THEN "Completed" ELSE "Pending"]

\* What the oracle told about the stage of the run.
oracle_out(value) ==
    [NoOut EXCEPT !.op = "has_outputted_stage", !.stage = stage,
                  !.kind = "return", !.value = value,
                  !.stages = get_expected_stages(stage)]

InitPipeline ==
    /\ run_config \in OracleRunConfigs
    /\ graphs = NoGraphs
    /\ disk = {}
    /\ stage = 1
    /\ status = "Pending"
    /\ sim_duration \in 1..MaxSimDuration
    /\ ret = NoCall
    /\ flat = NoFlat
    /\ out = NoOut
    /\ store = NoStore
    /\ runs = NoRuns

\* The stage was outputted before: it is not executed again.
SkipStage ==
    /\ status = "Pending"
    /\ has_outputted_stage(run_config, graphs, disk, stage, sim_duration)
    /\ out' = oracle_out(TRUE)
    /\ stage' = after_stage(stage).stage
    /\ status' = after_stage(stage).status
    /\ UNCHANGED <<run_config, ret, flat, graphs, disk, sim_duration,
                 store, runs>>

\* The stage was not outputted: it is executed.
StartStage ==
    /\ status = "Pending"
    /\ ~has_outputted_stage(run_config, graphs, disk, stage, sim_duration)
    /\ out' = oracle_out(FALSE)
    /\ status' = "Running"
    /\ UNCHANGED <<run_config, ret, flat, graphs, disk, stage, sim_duration,
                 store, runs>>

\* Stage 1 makes the graphs of the names made, and marks them.
ExecuteStage1(made) ==
    /\ status = "Running"
    /\ stage = 1
    /\ graphs' = GraphsOf(made)
    /\ status' = "Verifying"
    /\ UNCHANGED <<run_config, ret, flat, disk, stage, sim_duration, out,
                 store, runs>>

\* Stage 2 simulates the graphs, and marks them.
ExecuteStage2 ==
    /\ status = "Running"
    /\ stage = 2
    /\ IF marking_raises(graphs, 2)
       THEN status' = "Failed" /\ UNCHANGED graphs
       ELSE status' = "Verifying" /\ graphs' = mark_graphs(graphs, 2)
    /\ UNCHANGED <<run_config, ret, flat, disk, stage, sim_duration, out,
                 store, runs>>

\* Stage 3 writes the images of the graphs of the names drawn; it marks
\* nothing.
ExecuteStage3(drawn) ==
    /\ status = "Running"
    /\ stage = 3
    /\ LET images == expected_image_paths(run_config, graphs, drawn, sim_duration)
       IN IF images.kind = "raise"
          THEN status' = "Failed" /\ UNCHANGED disk
          ELSE status' = "Verifying" /\ disk' = disk \cup Range(images.paths)
    /\ UNCHANGED <<run_config, ret, flat, graphs, stage, sim_duration, out,
                 store, runs>>

\* Stage 4 puts the results on the graphs, and marks them.
ExecuteStage4 ==
    /\ status = "Running"
    /\ stage = 4
    /\ IF marking_raises(graphs, 4)
       THEN status' = "Failed" /\ UNCHANGED graphs
       ELSE status' = "Verifying" /\ graphs' = mark_graphs(with_results(graphs), 4)
    /\ UNCHANGED <<run_config, ret, flat, disk, stage, sim_duration, out,
                 store, runs>>

\* The stage that was executed is verified to be completed.
StageVerified ==
    /\ status = "Verifying"
    /\ assert_stage_is_completed(run_config, graphs, disk, stage, sim_duration) = "return"
    /\ out' = oracle_out(TRUE)
    /\ stage' = after_stage(stage).stage
    /\ status' = after_stage(stage).status
    /\ UNCHANGED <<run_config, ret, flat, graphs, disk, sim_duration,
                 store, runs>>

\* The stage that was executed is not completed: the run fails.
StageFailed ==
    /\ status = "Verifying"
    /\ assert_stage_is_completed(run_config, graphs, disk, stage, sim_duration) = "raise"
    /\ out' = oracle_out(FALSE)
    /\ status' = "Failed"
    /\ UNCHANGED <<run_config, ret, flat, graphs, disk, stage, sim_duration,
                 store, runs>>

\* The run is started again on what the run before left.
Resume ==
    /\ status \in {"Failed", "Completed"}
    /\ stage' = 1
    /\ status' = "Pending"
    /\ out' = NoOut
    /\ UNCHANGED <<run_config, ret, flat, graphs, disk, sim_duration,
                 store, runs>>

\* The names of the graphs a stage may handle: all that are expected, or all
\* but the last.
HandledNames ==
    LET names == get_expected_stage_1_graph_names(run_config)
    IN {Range(names), Range(SubSeq(names, 1, Len(names) - 1))}

NextPipeline ==
    \/ SkipStage
    \/ StartStage
    \/ \E made \in HandledNames : ExecuteStage1(made)
    \/ ExecuteStage2
    \/ \E drawn \in HandledNames :
          ExecuteStage3(SelectSeq(AllGraphNames, LAMBDA n : n \in drawn))
    \/ ExecuteStage4
    \/ StageVerified
    \/ StageFailed
    \/ Resume

SpecPipeline == InitPipeline /\ [][NextPipeline]_vars

---------------------------------------------------------------------------
(* Stage completion: claim C9 *)

\* C9: the oracle tells that stage s of a run is completed exactly when
\* every expected graph is there and, for s among 1, 2 and 4, the
\* completed_stages of every expected graph contains s, or, for s = 3,
\* every expected image file is on disk; and the stages required in
\* completed_stages when stage s is checked are 1..s without 3.
C9_OracleTellsCompletion ==
    [][(SkipStage \/ StartStage \/ StageVerified \/ StageFailed) =>
        LET names == RolesFor(dict_get(run_config, "adaptation") # PyNone,
                              dict_get(run_config, "radiation") # PyNone)
            present == \A name \in names : dict_has(graphs, name)
            marked == \A name \in names :
                        stage \in completed_stages_of(dict_get(graphs, name))
            images == expected_image_paths(run_config, graphs,
                          SelectSeq(AllGraphNames, LAMBDA n : n \in names),
                          sim_duration)
            drawn == images.kind = "return" /\ Range(images.paths) \subseteq disk
        IN /\ out'.op = "has_outputted_stage"
           /\ out'.stage = stage
           /\ out'.value = (present /\ IF stage = 3 THEN drawn ELSE marked)
           /\ Range(out'.stages) = (1..stage) \ {3}
           /\ Len(out'.stages) = Cardinality(Range(out'.stages))]_vars

\* The oracle told that stage 4 is completed, on graphs marked 1, 2 and 4.
C9_Witness ==
    /\ out.op = "has_outputted_stage"
    /\ out.stage = 4
    /\ out.value
    /\ out.stages = <<1, 2, 4>>
    /\ completed_stages_of(dict_get(graphs, "snn_algo_graph")) = {1, 2, 4}

---------------------------------------------------------------------------
(* Errors of the checks on the graphs: claims C11 and C12 *)

\* C11: asked about a stage index outside 1..4, a stage without a rule of
\* completeness, expected_graphs_are_in_dict raises (its Exception "Stage
\* ... not yet implemented."); it returns neither true nor false.
C11_UnsupportedStageRaises ==
    (out.op = "expected_graphs_are_in_dict" /\ out.stage \notin 1..LastStage) =>
        /\ out.kind = "raise"
        /\ out.exc = "Exception"

\* It was asked about a stage after the last and about all expected graphs
\* being there, and raised.
C11_Witness ==
    /\ out.op = "expected_graphs_are_in_dict"
    /\ out.stage > LastStage
    /\ out.kind = "raise"
    /\ expected_graphs_are_in_dict(run_config, graphs, 1).value

\* Whether part occurs in text.
occurs_in(part, text) ==
    \E j \in 1..(Len(text) - Len(part) + 1) : SubSeq(text, j, j + Len(part) - 1) = part

\* The expected graph names that are no key of graphs.
AbsentNames ==
    { name \in Range(get_expected_stage_1_graph_names(run_config)) :
        ~dict_has(graphs, name) }

\* C12 (as claimed): asked for stage 1, assert_graphs_are_in_dict raises
\* exactly when an expected graph name is no key of graphs, whatever other
\* keys graphs has, and the message of the error holds the name of an absent
\* expected graph and the whole of graphs.
C12_MissingGraphErrorNamesRole ==
    (out.op = "assert_graphs_are_in_dict" /\ out.stage = 1) =>
        /\ (out.kind = "raise") = (AbsentNames # {})
        /\ out.kind = "raise" =>
             /\ occurs_in(graphs_str(graphs), out.message)
             /\ \E name \in AbsentNames : occurs_in("'" \o name \o "'", out.message)

---------------------------------------------------------------------------
(* The record of completed stages of one graph *)

\* The attributes of the one graph of graphs.
TheGraph == graphs.items[1].v

\* The list completed_stages of a graph as a sequence of ints, empty for a
\* graph without the list.
completed_stages_list(graph) ==
    IF dict_has(graph, "completed_stages")
    THEN [j \in 1..Len(dict_get(graph, "completed_stages").items) |->
            dict_get(graph, "completed_stages").items[j].v.i]
    ELSE <<>>

InitMarks ==
    /\ graphs \in { PyDict(<< <<name, FreshGraph(name)>> >>)
                    : name \in {"input_graph", "snn_algo_graph"} }
    /\ run_config = PyDict(<<>>)
    /\ ret = NoCall
    /\ flat = NoFlat
    /\ disk = {}
    /\ stage = 0
    /\ status = "none"
    /\ sim_duration = 0
    /\ out = NoOut
    /\ store = NoStore
    /\ runs = NoRuns

\* add_stage_completion_to_graph(snn=graph, stage_index=stage_index)
AddStageCompletionToGraph(stage_index) ==
    /\ LET r == add_stage_completion_to_graph(TheGraph, stage_index)
       IN /\ graphs' = [graphs EXCEPT !.items[1].v = r.graph]
          /\ out' = [NoOut EXCEPT !.op = "add_stage_completion_to_graph",
                                  !.stage = stage_index,
                                  !.kind = IF r.exc = "" THEN "return" ELSE "raise",
                                  !.exc = r.exc]
    /\ UNCHANGED <<run_config, ret, flat, disk, stage, status, sim_duration,
                 store, runs>>

NextMarks == \E stage_index \in 0..MaxStageIndex : AddStageCompletionToGraph(stage_index)

SpecMarks == InitMarks /\ [][NextMarks]_vars

---------------------------------------------------------------------------
(* Claims C13 and C14 *)

\* C13 (as claimed): on a graph that was fresh, a call for stage 1 after
\* stage 1 was marked raises ValueError, and a call for stage 2 while the
\* graph has no completed_stages yet raises TypeError.
C13_ErrorsOfMarkingAFreshGraph ==
    [][NextMarks =>
        /\ (out'.stage = 1 /\ dict_has(TheGraph, "completed_stages")) =>
              out'.exc = "ValueError"
        /\ (out'.stage = 2 /\ ~dict_has(TheGraph, "completed_stages")) =>
              out'.exc = "TypeError"]_vars

\* C14: a call of add_stage_completion_to_graph that raises leaves
\* completed_stages as it was, a call that returns appends its stage index
\* to it and changes nothing else of it; and no stage index is in it twice.
C14_CompletedStagesOnlyGrow ==
    [][NextMarks =>
        LET before == completed_stages_list(TheGraph)
            after == completed_stages_list(TheGraph')
        IN /\ IF out'.kind = "raise"
              THEN after = before
              ELSE after = Append(before, out'.stage)
           /\ \A a, b \in 1..Len(after) : a # b => after[a] # after[b]]_vars

\* Stages 1, 2 and 4 are marked, in this order, and a call for a stage that
\* is marked was refused.
C14_Witness ==
    /\ completed_stages_list(TheGraph) = <<1, 2, 4>>
    /\ out.op = "add_stage_completion_to_graph"
    /\ out.stage = 2
    /\ out.exc = "ValueError"

---------------------------------------------------------------------------
(* The order of the stages of a run: claims C15, C16 and C17 *)

\* Stage n of the run is completed, by what the graphs and the disk hold:
\* every expected graph is there and, for stage 3, every expected image is
\* on disk, for another stage, n is in the completed_stages of each.
Completed(n) ==
    LET names == RolesFor(dict_get(run_config, "adaptation") # PyNone,
                          dict_get(run_config, "radiation") # PyNone)
        images == expected_image_paths(run_config, graphs,
                      SelectSeq(AllGraphNames, LAMBDA name : name \in names),
                      sim_duration)
    IN /\ \A name \in names : dict_has(graphs, name)
       /\ IF n = 3
          THEN images.kind = "return" /\ Range(images.paths) \subseteq disk
          ELSE \A name \in names : n \in completed_stages_of(dict_get(graphs, name))

\* The status of stage n in the run: the stages before the stage the run is
\* at were found completed, the stages after it wait.
StatusOf(n) ==
    IF n < stage THEN "Completed"
    ELSE IF n = stage THEN status
    ELSE "Pending"

\* A stage is executed in this step.
Executes ==
    \/ \E made \in HandledNames : ExecuteStage1(made)
    \/ ExecuteStage2
    \/ \E drawn \in HandledNames :
          ExecuteStage3(SelectSeq(AllGraphNames, LAMBDA n : n \in drawn))
    \/ ExecuteStage4

\* C15: a stage after the first is executed, verified or completed in a run
\* only when the stage before it is completed, and at most one stage of the
\* run is executed or verified at a time.
C15_StagesInOrder ==
    /\ \A n \in 2..LastStage :
          StatusOf(n) \in {"Running", "Verifying", "Completed"} => Completed(n - 1)
    /\ Cardinality({ n \in 1..LastStage : StatusOf(n) \in {"Running", "Verifying"} }) <= 1

\* Stage 4 is executed, stage 3 having left its images.
C15_Witness ==
    /\ stage = LastStage
    /\ status = "Running"
    /\ Completed(3)
    /\ disk # {}

\* C16: a stage that is completed is not executed; and once the four stages
\* are completed no stage is executed and no step changes the graphs or the
\* images, so a second run leaves what the first left.
C16_ResumeIsIdempotent ==
    [][/\ Executes => ~Completed(stage)
       /\ (\A n \in 1..LastStage : Completed(n)) =>
             /\ ~Executes
             /\ graphs' = graphs
             /\ disk' = disk]_vars

\* A run on the outcome of a completed run has passed stages 1 to 3 without
\* executing them.
C16_Witness ==
    /\ \A n \in 1..LastStage : Completed(n)
    /\ stage = LastStage
    /\ status = "Pending"
    /\ out.op = "has_outputted_stage"
    /\ out.value

\* C17: the execution of a stage is followed by its verification and by
\* nothing else; from the verification the run goes on to the next stage
\* when the stage is completed, and fails when it is not; a run that has
\* failed executes nothing and starts no other stage: all that is left is to
\* start a run anew, from stage 1.
C17_FailedVerificationIsFatal ==
    [][/\ Executes => (stage' = stage /\ status' \in {"Verifying", "Failed"})
       /\ status = "Verifying" =>
             IF Completed(stage)
             THEN stage' = stage + 1 /\ status' \in {"Pending", "Completed"}
             ELSE /\ status' = "Failed"
                  /\ stage' = stage
                  /\ graphs' = graphs
                  /\ disk' = disk
       /\ status = "Failed" =>
             /\ ~Executes
             /\ stage' = 1
             /\ status' = "Pending"
             /\ graphs' = graphs
             /\ disk' = disk]_vars

\* The run has failed at stage 3: an image that is expected is not on disk.
C17_Witness ==
    /\ status = "Failed"
    /\ stage = 3
    /\ ~Completed(3)
    /\ Completed(2)
    /\ out.op = "has_outputted_stage"
    /\ ~out.value

---------------------------------------------------------------------------
(* import_results/stage_1_load_input_graphs.py: load_results_stage_1 *)

\* The seeds of the run configurations that are loaded are 1..MaxSeed.
MaxSeed == 2

RECURSIVE without_keys(_, _, _)
\* d after d.pop(key) for each of keys that is in d, from the j-th on
without_keys(d, keys, j) ==
    IF j > Len(keys) THEN d
    ELSE without_keys(IF dict_has(d, keys[j]) THEN dict_del(d, keys[j]) ELSE d,
                      keys, j + 1)

dicts_are_equal_without_volatile(left, right, without_unique_id) ==
    IF without_unique_id
    THEN py_eq(without_keys(left, popped_keys, 1), without_keys(right, popped_keys, 1))
    ELSE py_eq(left, right)

\* dicts_are_equal(left=left, right=right, without_unique_id=...)
dicts_are_equal(left, right, without_unique_id) ==
    IF without_unique_id
    THEN py_eq(without_keys(left, <<"unique_id">>, 1),
               without_keys(right, <<"unique_id">>, 1))
    ELSE py_eq(left, right)

json_filepath_shared(filename) == "results/results.json"

\* The path of the result file of a run configuration, given its file name.
json_filepath(filename) == "results/" \o filename \o ".json"

MismatchMessage == "Error, difference in run configs, see above."

load_results_stage_1_graphs_first(config, the_store) ==
    LET filename == filename_of(config)
        failed(exc, message) ==
            [kind |-> "raise", exc |-> exc, message |-> message, value |-> PyNone]
    IN IF filename.kind = "raise" THEN failed(filename.exc, filename.value)
       ELSE IF json_filepath(filename.value) \notin DOMAIN the_store
       THEN failed("FileNotFoundError", json_filepath(filename.value))
       ELSE LET stage_1_dict == the_store[json_filepath(filename.value)]
                found == assert_graphs_are_in_dict(config, stage_1_dict.graphs_dict, 1)
            IN IF found.kind = "raise" THEN failed(found.exc, found.message)
               ELSE IF ~dicts_are_equal(config, stage_1_dict.run_config, TRUE)
               THEN failed("Exception", MismatchMessage)
               ELSE [kind |-> "return", exc |-> "", message |-> "",
                     value |-> stage_1_dict]

\* load_results_stage_1(run_config) on the result files of the_store: the
\* bundle it returns, or what it raises.
load_results_stage_1(config, the_store) ==
    LET filename == filename_of(config)
        failed(exc, message) ==
            [kind |-> "raise", exc |-> exc, message |-> message, value |-> PyNone]
    IN IF filename.kind = "raise" THEN failed(filename.exc, filename.value)
       ELSE IF json_filepath(filename.value) \notin DOMAIN the_store
       THEN failed("FileNotFoundError", json_filepath(filename.value))
       ELSE LET stage_1_dict == the_store[json_filepath(filename.value)]
                found == assert_graphs_are_in_dict(config, stage_1_dict.graphs_dict, 1)
            IN IF ~dicts_are_equal(config, stage_1_dict.run_config, TRUE)
               THEN failed("Exception", MismatchMessage)
               ELSE IF found.kind = "raise" THEN failed(found.exc, found.message)
               ELSE [kind |-> "return", exc |-> "", message |-> "",
                     value |-> stage_1_dict]

\* A run configuration with a seed.
SeededConfig(seed, radiation, vol) ==
    WithVolatile(PyDict(<< <<"seed", PyInt(seed)>>, <<"adaptation", PyNone>>,
                           <<"radiation", radiation>> >>), vol)

\* The run configurations asked for.
ExpectedConfigs ==
    { SeededConfig(seed, PyNone, [unique_id |-> 1, flags |-> [f \in FlagNames |-> b]])
      : seed \in 1..MaxSeed, b \in BOOLEAN }

\* The fields of a dict in the reverse order.
Reversed(d) == [d EXCEPT !.items = [j \in 1..Len(@) |-> @[Len(@) + 1 - j]]]

\* The run configurations a result file may hold: any seed and any volatile
\* fields, the fields in either order, with the unique id or without.
LoadedConfigs ==
    UNION { {c, Reversed(c), dict_del(c, "unique_id")}
            : c \in { SeededConfig(seed, PyNone, vol)
                      : seed \in 1..MaxSeed, vol \in Volatiles } }

\* The bundle of a result file.
Bundle(config, the_graphs) == [run_config |-> config, graphs_dict |-> the_graphs]

InitLoad ==
    /\ run_config \in ExpectedConfigs
    /\ store \in
         {NoStore} \cup
         { [path \in {json_filepath(filename_of(run_config).value)} |->
               Bundle(loaded, GraphsOf(chosen))]
           : loaded \in LoadedConfigs,
             chosen \in {{"input_graph"}, {"input_graph", "snn_algo_graph"}} }
    /\ ret = NoCall
    /\ flat = NoFlat
    /\ graphs = NoGraphs
    /\ disk = {}
    /\ stage = 0
    /\ status = "none"
    /\ sim_duration = 0
    /\ out = NoOut
    /\ runs = NoRuns

\* load_results_stage_1(run_config)
LoadResultsStage1 ==
    /\ out.op = "none"
    /\ LET r == load_results_stage_1(run_config, store)
       IN /\ out' = [NoOut EXCEPT !.op = "load_results_stage_1",
                                  !.stage = 1,
                                  !.kind = r.kind,
                                  !.exc = r.exc,
                                  !.message = r.message]
          /\ graphs' = IF r.kind = "return" THEN r.value.graphs_dict ELSE graphs
    /\ UNCHANGED <<run_config, ret, flat, disk, stage, status, sim_duration,
                   store, runs>>

NextLoad == LoadResultsStage1

SpecLoad == InitLoad /\ [][NextLoad]_vars

---------------------------------------------------------------------------
(* Consistency of the loaded run configuration: claim C18 *)

\* The names of the fields of a dict.
KeysOf(d) == { d.items[j].k : j \in 1..Len(d.items) }

\* The run configuration in the one result file of the store.
LoadedConfig == store[CHOOSE path \in DOMAIN store : TRUE].run_config

\* C18: load_results_stage_1 raises the error of a difference in run configs
\* exactly when the run configuration asked for and the one loaded do not
\* have the same fields with the same values, unique_id left aside: another
\* unique_id alone is accepted, another seed is not, and neither is another
\* overwrite_sim_results, overwrite_visualisation, show_snns or export_snns.
C18_ConsistentButForUniqueId ==
    (out.op = "load_results_stage_1" /\ DOMAIN store # {}) =>
        ((out.message # MismatchMessage) <=>
            /\ KeysOf(run_config) \ {"unique_id"} = KeysOf(LoadedConfig) \ {"unique_id"}
            /\ \A key \in KeysOf(run_config) \ {"unique_id"} :
                  dict_get(run_config, key) = dict_get(LoadedConfig, key))

\* The run configuration loaded differs from the one asked for in show_snns
\* alone, and the load has raised the error of a difference.
C18_Witness ==
    /\ out.op = "load_results_stage_1"
    /\ DOMAIN store # {}
    /\ out.message = MismatchMessage
    /\ \A key \in KeysOf(run_config) :
          (key # "show_snns") <=>
              (dict_has(LoadedConfig, key)
               /\ dict_get(run_config, key) = dict_get(LoadedConfig, key))

---------------------------------------------------------------------------
(* Calls of get_expected_image_paths_stage_3 *)

\* The lists of extensions asked for.
ExtensionLists == {<<>>, <<".png">>, <<".png", ".svg">>}

\* The lists of graph names asked for: some of the graph names, in their
\* order.
GraphNameLists ==
    { SelectSeq(AllGraphNames, LAMBDA n : n \in chosen)
      : chosen \in SUBSET Range(AllGraphNames) }

InitImages ==
    /\ run_config \in OracleRunConfigs
    /\ graphs \in { PyDict(<< <<"input_graph", attributes>> >>)
                    : attributes \in {FreshGraph("input_graph"), PyDict(<<>>)} }
    /\ sim_duration \in 0..MaxSimDuration
    /\ ret = NoCall
    /\ flat = NoFlat
    /\ disk = {}
    /\ stage = 0
    /\ status = "none"
    /\ out = NoOut
    /\ store = NoStore
    /\ runs = NoRuns

\* get_expected_image_paths_stage_3(graph_names, input_graph, run_config,
\* extensions)
GetExpectedImagePathsStage3(graph_names, extensions) ==
    /\ out.op = "none"
    /\ LET r == get_expected_image_paths_stage_3(graph_names, TheGraph, run_config,
                                                 extensions, sim_duration)
       IN out' = [NoOut EXCEPT !.op = "get_expected_image_paths_stage_3",
                               !.kind = r.kind,
                               !.exc = r.exc,
                               !.names = graph_names,
                               !.stages = extensions,
                               !.paths = r.paths]
    /\ UNCHANGED <<run_config, ret, flat, graphs, disk, stage, status, sim_duration,
                   store, runs>>

NextImages ==
    \E graph_names \in GraphNameLists, extensions \in ExtensionLists :
        GetExpectedImagePathsStage3(graph_names, extensions)

SpecImages == InitImages /\ [][NextImages]_vars

---------------------------------------------------------------------------
(* The expected image files: claim C19 *)

\* The paths claimed for a graph name and an extension, key being the file
\* name of the run configuration.
ClaimedPaths(name, key, extension) ==
    IF name = "input_graph"
    THEN { "results/" \o name \o "_" \o key \o extension }
    ELSE { "latex/Images/graphs/" \o name \o "_" \o key \o "_" \o IntRepr(t) \o extension
           : t \in 0..(sim_duration - 1) }

\* C19: get_expected_image_paths_stage_3 raises when the input graph has no
\* alg_props; else it returns, for each extension and each graph name asked
\* for, results/{name}_{key}{ext} for input_graph and the sim_duration paths
\* latex/Images/graphs/{name}_{key}_{t}{ext}, t from 0 to sim_duration - 1,
\* for another name, key being the file name of the run configuration; each
\* once, and no other path.
C19_ExpectedImagePaths ==
    out.op = "get_expected_image_paths_stage_3" =>
        LET key == filename_of(run_config).value
            claimed == UNION { ClaimedPaths(name, key, extension)
                               : name \in Range(out.names),
                                 extension \in Range(out.stages) }
        IN /\ (out.kind = "raise") = ~dict_has(TheGraph, "alg_props")
           /\ out.kind = "return" =>
                /\ Range(out.paths) = claimed
                /\ Len(out.paths) = Cardinality(claimed)

\* The paths of two extensions were asked for the input graph and two more
\* graphs: 2 * (1 + 2 * sim_duration) paths, sim_duration being more than 1.
C19_Witness ==
    /\ out.op = "get_expected_image_paths_stage_3"
    /\ out.kind = "return"
    /\ Len(out.stages) = 2
    /\ out.names = <<"input_graph", "snn_algo_graph", "rad_snn_algo_graph">>
    /\ sim_duration > 1
    /\ Len(out.paths) = 2 * (1 + 2 * sim_duration)

---------------------------------------------------------------------------
(* Two runs side by side on the result files *)

\* The runs that go on side by side.
Runs == {1, 2}

\* The result file of a run configuration.
path_of(config) == json_filepath(filename_of(config).value)

\* The graphs in the result file of a run configuration, none without file.
stored_graphs(config, the_store) ==
    IF path_of(config) \in DOMAIN the_store
    THEN the_store[path_of(config)].graphs_dict
    ELSE NoGraphs

\* The image files of stage 3 of a run configuration.
images_of(config, the_graphs, duration) ==
    Range(expected_image_paths(config, the_graphs,
                               get_expected_stage_1_graph_names(config),
                               duration).paths)

\* The graphs a stage leaves, given the graphs it starts on.
executed(config, the_graphs, stage_index) ==
    IF stage_index = 1
    THEN GraphsOf(Range(get_expected_stage_1_graph_names(config)))
    ELSE IF stage_index = 2 THEN mark_graphs(the_graphs, 2)
    ELSE IF stage_index = 4 THEN mark_graphs(with_results(the_graphs), 4)
    ELSE the_graphs

\* Whether the stage raises on the graphs it starts on.
execution_raises(the_graphs, stage_index) ==
    stage_index \in {2, 4} /\ marking_raises(the_graphs, stage_index)

InitConcurrent ==
    /\ runs \in [Runs -> { [run_config |-> config, stage |-> 1,
                            status |-> "Pending", graphs |-> NoGraphs]
                           : config \in OracleRunConfigs }]
    /\ store = NoStore
    /\ disk = {}
    /\ sim_duration \in 1..MaxSimDuration
    /\ run_config = PyDict(<<>>)
    /\ ret = NoCall
    /\ flat = NoFlat
    /\ graphs = NoGraphs
    /\ stage = 0
    /\ status = "none"
    /\ out = NoOut

\* The run finds its stage outputted in its result file: it goes on to the
\* next stage.
SkipStageOf(run) ==
    LET this == runs[run]
    IN /\ this.status = "Pending"
       /\ has_outputted_stage(this.run_config, stored_graphs(this.run_config, store),
                              disk, this.stage, sim_duration)
       /\ runs' = [runs EXCEPT ![run].stage = after_stage(this.stage).stage,
                               ![run].status = after_stage(this.stage).status]
       /\ UNCHANGED <<run_config, ret, flat, graphs, disk, stage, status,
                      sim_duration, out, store>>

\* The run finds its stage not outputted: it loads the graphs of its result
\* file to execute the stage on them.
StartStageOf(run) ==
    LET this == runs[run]
    IN /\ this.status = "Pending"
       /\ ~has_outputted_stage(this.run_config, stored_graphs(this.run_config, store),
                               disk, this.stage, sim_duration)
       /\ runs' = [runs EXCEPT ![run].status = "Running",
                               ![run].graphs = stored_graphs(this.run_config, store)]
       /\ UNCHANGED <<run_config, ret, flat, graphs, disk, stage, status,
                      sim_duration, out, store>>

\* The run executes its stage on the graphs it loaded and writes its result
\* file, and for stage 3 its images.
ExecuteStageOf(run) ==
    LET this == runs[run]
        made == executed(this.run_config, this.graphs, this.stage)
    IN /\ this.status = "Running"
       /\ IF execution_raises(this.graphs, this.stage)
          THEN /\ runs' = [runs EXCEPT ![run].status = "Failed"]
               /\ UNCHANGED <<store, disk>>
          ELSE /\ runs' = [runs EXCEPT ![run].stage = after_stage(this.stage).stage,
                                       ![run].status = after_stage(this.stage).status,
                                       ![run].graphs = made]
               /\ store' = [path \in DOMAIN store \cup {path_of(this.run_config)} |->
                               IF path = path_of(this.run_config)
                               THEN Bundle(this.run_config, made)
                               ELSE store[path]]
               /\ disk' = IF this.stage = 3
                          THEN disk \cup images_of(this.run_config, made, sim_duration)
                          ELSE disk
       /\ UNCHANGED <<run_config, ret, flat, graphs, stage, status, sim_duration, out>>

NextConcurrent ==
    \E run \in Runs : SkipStageOf(run) \/ StartStageOf(run) \/ ExecuteStageOf(run)

SpecConcurrent == InitConcurrent /\ [][NextConcurrent]_vars

---------------------------------------------------------------------------
(* Runs on distinct keys: claim C20 *)

\* The bundle a run of the run configuration leaves when it runs alone.
AloneBundle(config) ==
    Bundle(config, executed(config, executed(config, executed(config, NoGraphs, 1), 2), 4))

\* The runs have distinct file names.
DistinctKeys ==
    \A a, b \in Runs :
        a # b => filename_of(runs[a].run_config).value
                     # filename_of(runs[b].run_config).value

\* The run that takes the step.
Stepping(run) == runs'[run] # runs[run]

\* C20: when the runs have distinct file names, a step of a run changes no
\* result file but the one of its own file name, which then holds a bundle
\* of its own run configuration, and writes no image but its own; and once
\* every run is completed, the result file of each holds the bundle that
\* run leaves when it runs alone, and the images are those of the runs.
C20_DistinctKeysDoNotConflict ==
    [][DistinctKeys =>
        /\ \A run \in Runs : Stepping(run) =>
              LET config == runs[run].run_config
              IN /\ \A path \in DOMAIN store : path \in DOMAIN store'
                 /\ \A path \in DOMAIN store' :
                       (path \notin DOMAIN store \/ store'[path] # store[path]) =>
                           /\ path = "results/" \o filename_of(config).value \o ".json"
                           /\ store'[path].run_config = config
                 /\ disk \subseteq disk'
                 /\ disk' \ disk \subseteq
                       images_of(config, AloneBundle(config).graphs_dict, sim_duration)
        /\ (\A run \in Runs : runs'[run].status = "Completed") =>
              /\ \A run \in Runs :
                    LET config == runs[run].run_config
                        path == "results/" \o filename_of(config).value \o ".json"
                    IN /\ path \in DOMAIN store'
                       /\ store'[path] = AloneBundle(config)
              /\ disk' = UNION { images_of(runs[run].run_config,
                                           AloneBundle(runs[run].run_config).graphs_dict,
                                           sim_duration) : run \in Runs }
        /\ \A run \in Runs : runs'[run].status # "Failed"]_vars

\* Two runs with distinct file names, the first with a radiation and the
\* second with an adaptation, are completed, each with its result file.
C20_Witness ==
    /\ DOMAIN runs = Runs
    /\ DistinctKeys
    /\ \A run \in Runs : runs[run].status = "Completed"
    /\ Cardinality(DOMAIN store) = 2
    /\ has_radiation(runs[1].run_config)
    /\ has_adaptation(runs[2].run_config)

---------------------------------------------------------------------------
(* Loading what was stored: claim C21 *)

\* C21 (as claimed): a load that returns gives the graphs of the bundle that
\* is stored in the result file, each with its completed_stages, for a run
\* configuration that is the stored one but for unique_id; and the load of a
\* run configuration without result file returns, and does not raise.
C21_StoreRoundTrips ==
    out.op = "load_results_stage_1" =>
        IF DOMAIN store = {}
        THEN out.kind = "return"
        ELSE out.kind = "return" =>
                /\ graphs = store[path_of(run_config)].graphs_dict
                /\ dicts_are_equal(run_config, LoadedConfig, TRUE)

---------------------------------------------------------------------------
(* The two checks of a load: claim C23 *)

\* The run configuration loaded has the fields and the values of the one
\* asked for, unique_id left aside.
LoadedIsConsistent ==
    /\ KeysOf(run_config) \ {"unique_id"} = KeysOf(LoadedConfig) \ {"unique_id"}
    /\ \A key \in KeysOf(run_config) \ {"unique_id"} :
          dict_get(run_config, key) = dict_get(LoadedConfig, key)

\* Every graph name expected for the run configuration asked for is a key
\* of the graphs loaded.
LoadedHasGraphs ==
    \A name \in RolesFor(dict_get(run_config, "adaptation") # PyNone,
                         dict_get(run_config, "radiation") # PyNone) :
        dict_has(store[path_of(run_config)].graphs_dict, name)

\* C23: load_results_stage_1 returns a bundle only when the run
\* configuration loaded is consistent with the one asked for and every
\* expected graph name is a key of the graphs loaded, and then it does
\* return; a bundle that is not consistent is reported as a difference in
\* run configs, also when a graph is missing; a consistent one with a graph
\* missing is reported as a missing graph.
C23_LoadChecksConfigThenGraphs ==
    (out.op = "load_results_stage_1" /\ DOMAIN store # {}) =>
        /\ (out.kind = "return") = (LoadedIsConsistent /\ LoadedHasGraphs)
        /\ ~LoadedIsConsistent => out.message = MismatchMessage
        /\ (LoadedIsConsistent /\ ~LoadedHasGraphs) =>
              /\ out.kind = "raise"
              /\ out.message # MismatchMessage
              /\ occurs_in("Error, graph is missing:", out.message)

\* A bundle with another seed and without snn_algo_graph was loaded, and
\* was reported as a difference in run configs.
C23_Witness ==
    /\ out.op = "load_results_stage_1"
    /\ DOMAIN store # {}
    /\ dict_get(run_config, "seed") # dict_get(LoadedConfig, "seed")
    /\ ~LoadedHasGraphs
    /\ out.kind = "raise"
    /\ out.message = MismatchMessage

---------------------------------------------------------------------------
(* Calls of add_stage_completion_to_graph on any record: claim C24 *)

\* What completed_stages of a graph may hold that is no list.
NonListRecords == {PyNone, PyStr("1"), PyInt(1), PyDict(<< <<"1", PyBool(TRUE)>> >>)}

\* The graph is fresh, or carries a completed_stages that is no list.
InitRecords ==
    /\ graphs \in
         { PyDict(<< <<"snn_algo_graph", attributes>> >>)
           : attributes \in
               {PyDict(<<>>)} \cup
               { PyDict(<< <<"completed_stages", record>> >>) : record \in NonListRecords } }
    /\ run_config = PyDict(<<>>)
    /\ ret = NoCall
    /\ flat = NoFlat
    /\ disk = {}
    /\ stage = 0
    /\ status = "none"
    /\ sim_duration = 0
    /\ out = NoOut
    /\ store = NoStore
    /\ runs = NoRuns

SpecRecords == InitRecords /\ [][NextMarks]_vars

\* C24: a call of add_stage_completion_to_graph that raises leaves the
\* completed_stages of the graph as it was: absent if it was absent, and the
\* same value, list or not, if it was there.
C24_RaisingCallChangesNothing ==
    [][(NextMarks /\ out'.kind = "raise") =>
        /\ dict_has(TheGraph', "completed_stages") = dict_has(TheGraph, "completed_stages")
        /\ dict_has(TheGraph, "completed_stages") =>
              dict_get(TheGraph', "completed_stages") = dict_get(TheGraph, "completed_stages")
        /\ TheGraph' = TheGraph]_vars

\* A call for stage 2 on a graph whose completed_stages is a str was
\* refused with TypeError.
C24_WitnessNonList ==
    /\ out.op = "add_stage_completion_to_graph"
    /\ out.stage = 2
    /\ out.exc = "TypeError"
    /\ dict_get(TheGraph, "completed_stages") = PyStr("1")

---------------------------------------------------------------------------
(* The end of a run: claim C25 *)

\* A step of a run: any step but the start of a new run.
RunStep ==
    \/ SkipStage
    \/ StartStage
    \/ Executes
    \/ StageVerified
    \/ StageFailed

\* A run that can take a step takes one in the end: the runner is one
\* thread that goes on, and the collaborators of the stages return.
SpecPipelineFair == SpecPipeline /\ WF_vars(RunStep)

\* C25: a run that is pending, executing or verifying a stage ends,
\* completed or failed; a completed run has stage 4 completed; and a stage
\* is executed at most once in a run: it is executed from Running only,
\* which the run leaves by that and enters only from Pending at the same
\* stage, and the run comes to be pending at a stage only from the stage
\* before or as a new run at stage 1.
C25_RunsEnd ==
    /\ (status \in {"Pending", "Running", "Verifying"})
          ~> (status \in {"Completed", "Failed"})
    /\ [](status = "Completed" => (stage = LastStage + 1 /\ Completed(LastStage)))
    /\ [][/\ Executes => (status = "Running" /\ status' # "Running")
          /\ (status' = "Running" /\ status # "Running") =>
                (status = "Pending" /\ stage' = stage)
          /\ (status = "Running" /\ status' = "Running") => stage' = stage
          /\ (status' = "Pending" /\ (status # "Pending" \/ stage' # stage)) =>
                \/ stage' = stage + 1
                \/ stage' = 1 /\ status \in {"Completed", "Failed"}]_vars

\* A run has ended completed, with the images of stage 3 on disk.
C25_Witness ==
    /\ status = "Completed"
    /\ stage = LastStage + 1
    /\ Completed(3)
    /\ Completed(LastStage)

============================================================================
